---- MODULE Spec2Model ----
(***************************************************************************)
(* A model of overtake's call-time overload resolution:                    *)
(*   src/src/overtake/overtake_class.py   (OvertakenFunctionRegistry)      *)
(*   src/src/overtake/lazy_inspection.py  (LazyOverloadsInspection)        *)
(*                                                                         *)
(* A signature is a sequence of parameters; a parameter is a record        *)
(*   [name, kind, annotation, default]                                     *)
(* where annotation = "empty" and default = "empty" stand for              *)
(* inspect.Parameter.empty.  Kinds are abbreviated PO (POSITIONAL_ONLY),   *)
(* PK (POSITIONAL_OR_KEYWORD), VP (VAR_POSITIONAL), KO (KEYWORD_ONLY) and  *)
(* VK (VAR_KEYWORD).  A call is a sequence of positional values and a      *)
(* function from keyword names to values.                                  *)
(***************************************************************************)
EXTENDS Integers, Sequences, FiniteSets, TLC

VARIABLES
    overtaken_function,   \* signature of the decorated function (the stub)
    overloads,            \* signatures registered with @overload, in declaration order
    version_minor,        \* sys.version_info is (3, version_minor)
    lazy_inspection,      \* self._lazy_inspection: NoInspection or an inspection record
    pc,                   \* where the wrapper's __call__ stands
    args,                 \* *args of the call in progress
    kwargs,               \* **kwargs of the call in progress
    idx,                  \* position of the for loop of __call__ in self.implementations
    incompatibilities,    \* the local list of IncompatibilityOverload
    bindLog,              \* candidates handed to signature.bind during this call
    oracleLog,            \* check_type invocations of this call
    invoked,              \* candidate implementations invoked by this call
    boundCall,            \* argument lists the matched candidate was bound and checked with
    outcome,              \* what the call returned or raised
    discoveries,          \* number of runs of find_implementations
    analyses,             \* number of runs of _find_arguments_to_check
    previous,             \* outcome of the preceding call when the caller repeats it
    tpc,                  \* per thread: where its first call of the wrapper stands
    building,             \* per thread: the LazyOverloadsInspection its __init__ is filling
    seen,                 \* per thread: the object inspection_results returned to it
    toutcome,             \* per thread: what its call returned or raised
    published             \* the objects assigned to self._lazy_inspection, in order

vars == <<overtaken_function, overloads, version_minor, lazy_inspection, pc, args,
          kwargs, idx, incompatibilities, bindLog, oracleLog, invoked, boundCall,
          outcome, discoveries, analyses, previous, tpc, building, seen, toutcome,
          published>>

(***************************************************************************)
(* Bounds of the explored universe.                                        *)
(***************************************************************************)
MaxParams == 1        \* parameters of one overload
MaxStubParams == 2    \* parameters of the decorated function
MaxCands == 2         \* overloads of one dispatch point
MaxArgs == 2          \* positional plus keyword arguments of one call
NThreads == 2         \* threads racing the first call of one dispatch point
MaxDiscoveries == 2   \* calls explored on a dispatch point without overloads

Names == {"a", "b"}
NameOrder == <<"a", "b">>
Kinds == {"PO", "PK", "VP", "KO", "VK"}
Values == {"i", "s"}          \* an int and a str passed by callers
DefaultValues == {"N"}        \* None, the default the stubs declare
UnpackTuple == "Unpack[tuple[int, ...]]"

TypeOf(v) == CASE v = "i" -> "int" [] v = "s" -> "str" [] OTHER -> "NoneType"

EmptyDict == [n \in {} |-> "i"]

Range(s) == {s[i] : i \in DOMAIN s}

RECURSIVE SeqsUpTo(_, _)
SeqsUpTo(S, n) ==
    IF n = 0 THEN {<<>>}
    ELSE LET shorter == SeqsUpTo(S, n - 1)
         IN  shorter \cup {Append(s, x) : s \in {t \in shorter : Len(t) = n - 1}, x \in S}

(***************************************************************************)
(* inspect.Signature: what the constructor accepts.                        *)
(***************************************************************************)
KindRank(k) ==
    CASE k = "PO" -> 0 [] k = "PK" -> 1 [] k = "VP" -> 2 [] k = "KO" -> 3 [] OTHER -> 4

IsVariadic(p) == p.kind \in {"VP", "VK"}

HasDefault(p) == p.default # "empty"

ValidSignature(sig) ==
    /\ \A i, j \in DOMAIN sig : i < j =>
          /\ sig[i].name # sig[j].name
          /\ KindRank(sig[i].kind) <= KindRank(sig[j].kind)
          /\ IsVariadic(sig[i]) => sig[i].kind # sig[j].kind
          /\ (sig[i].kind \in {"PO", "PK"} /\ sig[j].kind \in {"PO", "PK"}
                /\ HasDefault(sig[i])) => HasDefault(sig[j])
    /\ \A i \in DOMAIN sig : IsVariadic(sig[i]) => ~HasDefault(sig[i])

ParamNames(sig) == {sig[i].name : i \in DOMAIN sig}

ParamNamed(sig, n) == sig[CHOOSE i \in DOMAIN sig : sig[i].name = n]

(***************************************************************************)
(* inspect.Signature.bind / bind_partial, as overtake_class.py uses them.  *)
(* The result says whether binding succeeded and holds                     *)
(* BoundArguments.arguments: the plainly bound parameters, the tuple of a  *)
(* *args parameter and the dict of a **kwargs parameter, the last two only *)
(* when the call left something for them.                                  *)
(***************************************************************************)
NPositional(sig) == Cardinality({i \in DOMAIN sig : sig[i].kind \in {"PO", "PK"}})

HasKind(sig, k) == \E i \in DOMAIN sig : sig[i].kind = k

Min(x, y) == IF x <= y THEN x ELSE y

Bind(sig, A, K, partial) ==
    LET P == NPositional(sig)
        npos == Min(Len(A), P)
        rest == {i \in DOMAIN sig : i > npos /\ ~IsVariadic(sig[i])}
        byKeyword == {sig[i].name : i \in {j \in rest : sig[j].name \in DOMAIN K}}
        leftover == (DOMAIN K) \ {sig[i].name : i \in rest}
        tooMany == Len(A) > P /\ ~HasKind(sig, "VP")
        multiple == \E i \in 1..npos : sig[i].kind = "PK" /\ sig[i].name \in DOMAIN K
        positionalOnly == \E i \in rest : sig[i].kind = "PO" /\ sig[i].name \in DOMAIN K
        missing == ~partial /\ \E i \in rest :
                       sig[i].name \notin DOMAIN K /\ ~HasDefault(sig[i])
        unexpected == leftover # {} /\ ~HasKind(sig, "VK")
        byPosition == {sig[i].name : i \in 1..npos}
    IN  IF tooMany \/ multiple \/ positionalOnly \/ missing \/ unexpected
        THEN [ok |-> FALSE, plain |-> EmptyDict, starBound |-> FALSE, star |-> <<>>,
              dstarBound |-> FALSE, dstar |-> EmptyDict]
        ELSE [ok |-> TRUE,
              plain |-> [n \in byPosition \cup byKeyword |->
                            IF n \in byPosition
                            THEN A[CHOOSE i \in 1..npos : sig[i].name = n]
                            ELSE K[n]],
              starBound |-> Len(A) > P,
              star |-> IF Len(A) > P THEN SubSeq(A, P + 1, Len(A)) ELSE <<>>,
              dstarBound |-> leftover # {},
              dstar |-> [n \in leftover |-> K[n]]]

\* `name in bound_arguments.arguments`
InArguments(sig, b, name) ==
    \/ name \in DOMAIN b.plain
    \/ \E i \in DOMAIN sig : /\ sig[i].name = name
                             /\ \/ sig[i].kind = "VP" /\ b.starBound
                                \/ sig[i].kind = "VK" /\ b.dstarBound

(***************************************************************************)
(* BoundArguments.apply_defaults on the stub's partial binding: a missing  *)
(* parameter takes its default, *args takes () and **kwargs takes {}; a    *)
(* parameter without default stays missing.                                *)
(***************************************************************************)
WithDefaults(sig, b) ==
    [ok |-> TRUE,
     plain |-> [n \in (DOMAIN b.plain) \cup
                      {sig[i].name : i \in {j \in DOMAIN sig :
                                              ~IsVariadic(sig[j]) /\ HasDefault(sig[j])}} |->
                  IF n \in DOMAIN b.plain THEN b.plain[n] ELSE ParamNamed(sig, n).default],
     starBound |-> HasKind(sig, "VP"),
     star |-> b.star,
     dstarBound |-> HasKind(sig, "VK"),
     dstar |-> b.dstar]

\* args_with_defaults: the stub's parameters in order, from parameter i on
RECURSIVE ArgsWithDefaults(_, _, _, _)
ArgsWithDefaults(stub, b, signature, i) ==
    IF i > Len(stub) THEN <<>>
    ELSE LET p == stub[i]
             here == IF ~InArguments(stub, b, p.name) THEN <<>>
                     ELSE IF p.kind = "VP" THEN b.star
                     ELSE IF p.kind = "PO"
                             \/ (p.kind = "PK" /\ p.name \in ParamNames(signature))
                          THEN <<b.plain[p.name]>>
                     ELSE <<>>
         IN  here \o ArgsWithDefaults(stub, b, signature, i + 1)

\* kwargs_with_defaults: reduce(operator.ior, ...), a later entry overriding
KwargsWithDefaults(stub, b, signature) ==
    LET named == {stub[i].name : i \in {j \in DOMAIN stub :
                      /\ ~IsVariadic(stub[j])
                      /\ stub[j].name \in DOMAIN b.plain
                      /\ \/ stub[j].kind = "KO"
                         \/ stub[j].kind = "PK" /\ stub[j].name \notin ParamNames(signature)}}
        spread == IF b.dstarBound THEN DOMAIN b.dstar ELSE {}
    IN  [n \in named \cup spread |-> IF n \in spread THEN b.dstar[n] ELSE b.plain[n]]

\* OvertakenFunctionRegistry.apply_defaults
apply_defaults(original_signature, A, K, signature) ==
    LET partial == Bind(original_signature, A, K, TRUE)
        filled == WithDefaults(original_signature, partial)
    IN  IF ~partial.ok
        THEN [args |-> A, kwargs |-> K]
        ELSE [args |-> ArgsWithDefaults(original_signature, filled, signature, 1),
              kwargs |-> KwargsWithDefaults(original_signature, filled, signature)]

(***************************************************************************)
(* lazy_inspection.py: the computations of the first call.                 *)
(***************************************************************************)
\* LazyOverloadsInspection.__init__, line 21
has_defaults_of(original_signature) ==
    \E i \in DOMAIN original_signature : original_signature[i].default # "empty"

\* get_origin(argument.annotation) == Unpack
IsUnpack(annotation) == annotation = UnpackTuple

Positions(implementations) ==
    1..(IF implementations = <<>> THEN 0
        ELSE LET lens == {Len(implementations[c]) : c \in DOMAIN implementations}
             IN  CHOOSE m \in lens : \A l \in lens : l <= m)

NamesOf(implementations) ==
    UNION {ParamNames(implementations[c]) : c \in DOMAIN implementations}

\* the bookkeeping of _find_arguments_to_check before any signature is read
AnalysisStart(implementations) ==
    [variadic_unpack_present |-> FALSE,
     all_arguments |-> {},
     pos_arg_names |-> [q \in Positions(implementations) |-> {}],
     pos_found_types |-> [q \in Positions(implementations) |-> {}],
     kw_found_types |-> [n \in NamesOf(implementations) |-> {}]]

\* the body of the inner loop of _find_arguments_to_check, lines 83-107
AnalyzeParameter(st, argument_pos, argument) ==
    LET first == /\ argument.kind \in {"PO", "PK"}
                 /\ argument.annotation \notin st.pos_found_types[argument_pos]
        found == IF first
                 THEN [st.pos_found_types EXCEPT ![argument_pos] = @ \cup {argument.annotation}]
                 ELSE st.pos_found_types
        second == /\ argument.kind \in {"KO", "PK", "VP", "VK"}
                  /\ argument.annotation \notin found[argument_pos]
    IN  [variadic_unpack_present |-> st.variadic_unpack_present \/ IsUnpack(argument.annotation),
         all_arguments |-> st.all_arguments \cup {argument.name},
         pos_arg_names |-> IF first
                           THEN [st.pos_arg_names EXCEPT ![argument_pos] = @ \cup {argument.name}]
                           ELSE st.pos_arg_names,
         pos_found_types |-> found,
         kw_found_types |-> IF second
                            THEN [st.kw_found_types EXCEPT ![argument.name] = @ \cup {argument.annotation}]
                            ELSE st.kw_found_types]

RECURSIVE AnalyzeSignature(_, _, _)
AnalyzeSignature(st, signature, argument_pos) ==
    IF argument_pos > Len(signature) THEN st
    ELSE AnalyzeSignature(AnalyzeParameter(st, argument_pos, signature[argument_pos]),
                          signature, argument_pos + 1)

RECURSIVE AnalyzeAll(_, _, _)
AnalyzeAll(st, implementations, c) ==
    IF c > Len(implementations) THEN st
    ELSE AnalyzeAll(AnalyzeSignature(st, implementations[c], 1), implementations, c + 1)

\* _find_arguments_to_check
find_arguments_to_check(implementations) ==
    LET st == AnalyzeAll(AnalysisStart(implementations), implementations, 1)
    IN  IF st.variadic_unpack_present THEN st.all_arguments
        ELSE UNION {st.pos_arg_names[q] :
                       q \in {r \in DOMAIN st.pos_found_types :
                                 Cardinality(st.pos_found_types[r]) > 1}}
             \cup {n \in DOMAIN st.kw_found_types : Cardinality(st.kw_found_types[n]) > 1}

\* the orders in which a Python set of strings may be iterated
IterationOrders(S) ==
    {o \in [1..Cardinality(S) -> S] : \A i, j \in DOMAIN o : i # j => o[i] # o[j]}

\* a version test that is off by one release
additional_help_off_by_one(minor) ==
    IF minor <= 11 THEN "use typing_extensions.overload before Python 3.11"
    ELSE "Did you forget to use '@overload'?"

\* raise_if_no_implementations, lines 50-58: the hint of OverloadsNotFoundError
additional_help(minor) ==
    IF minor < 11 THEN "use typing_extensions.overload before Python 3.11"
    ELSE "Did you forget to use '@overload'?"

(***************************************************************************)
(* overtake_class.py: find_incompatibility.                                *)
(***************************************************************************)
NoReason == [kind |-> "None", argument |-> ""]
IncompatibilityBind == [kind |-> "IncompatibilityBind", argument |-> ""]
TypeMismatch(argument_name) == [kind |-> "TypeMismatch", argument |-> argument_name]

\* lines 98-113: the type the bound value is checked against
TypeHint(parameter) ==
    CASE parameter.kind = "VP" ->
            IF IsUnpack(parameter.annotation) THEN [origin |-> "tuple", arg |-> "int"]
            ELSE [origin |-> "tuple", arg |-> parameter.annotation]
      [] parameter.kind = "VK" ->
            IF IsUnpack(parameter.annotation) THEN [origin |-> "tuple", arg |-> "int"]
            ELSE [origin |-> "dict", arg |-> parameter.annotation]
      [] OTHER -> [origin |-> "plain", arg |-> parameter.annotation]

\* inspect.Parameter.empty, the only hint line 115 skips
EmptyHint == [origin |-> "plain", arg |-> "empty"]

(***************************************************************************)
(* runtime_type_checkers.umbrella.check_type: TRUE when the value bound to *)
(* the parameter is an instance of the hint.  No value is an instance of   *)
(* inspect.Parameter.empty.                                                *)
(***************************************************************************)
check_type(parameter, b, hint) ==
    CASE parameter.kind = "VP" ->
            /\ hint.origin = "tuple"
            /\ \A i \in DOMAIN b.star : TypeOf(b.star[i]) = hint.arg
      [] parameter.kind = "VK" ->
            /\ hint.origin = "dict"
            /\ \A n \in DOMAIN b.dstar : TypeOf(b.dstar[n]) = hint.arg
      [] OTHER ->
            /\ hint.origin = "plain"
            /\ TypeOf(b.plain[parameter.name]) = hint.arg

\* lines 94-126: the loop over self.arguments_to_check, from its k-th name on
RECURSIVE CheckArguments(_, _, _, _)
CheckArguments(signature, b, order, k) ==
    IF k > Len(order) THEN [reason |-> NoReason, calls |-> <<>>]
    ELSE LET argument_name == order[k]
             later == CheckArguments(signature, b, order, k + 1)
         IN  IF ~InArguments(signature, b, argument_name) THEN later
             ELSE LET parameter == ParamNamed(signature, argument_name)
                      type_hint == TypeHint(parameter)
                      call == [argument |-> argument_name, hint |-> type_hint]
                  IN  IF type_hint = EmptyHint THEN later
                      ELSE IF check_type(parameter, b, type_hint)
                           THEN [reason |-> later.reason, calls |-> <<call>> \o later.calls]
                           ELSE [reason |-> TypeMismatch(argument_name), calls |-> <<call>>]

\* lines 81-126
find_incompatibility(inspection, A, K, signature) ==
    LET given == IF inspection.has_defaults
                 THEN apply_defaults(inspection.original_signature, A, K, signature)
                 ELSE [args |-> A, kwargs |-> K]
        b == Bind(signature, given.args, given.kwargs, FALSE)
        checked == CheckArguments(signature, b, inspection.arguments_to_check, 1)
    IN  IF ~b.ok
        THEN [reason |-> IncompatibilityBind, calls |-> <<>>,
              args |-> given.args, kwargs |-> given.kwargs]
        ELSE [reason |-> checked.reason, calls |-> checked.calls,
              args |-> given.args, kwargs |-> given.kwargs]

(***************************************************************************)
(* The explored dispatch points and calls.                                 *)
(***************************************************************************)
Annotations(kind) ==
    {"empty", "int", "str"} \cup (IF kind = "VP" THEN {UnpackTuple} ELSE {})

CandidateParams ==
    UNION {[name : Names, kind : {k}, annotation : Annotations(k), default : {"empty"}] :
              k \in Kinds}

CandidateSignatures ==
    {sig \in SeqsUpTo(CandidateParams, MaxParams) : ValidSignature(sig)}

CandidateLists == SeqsUpTo(CandidateSignatures, MaxCands)

\* signatures of decorated functions: their annotations are never read
StubParams ==
    [name : Names, kind : Kinds, annotation : {"empty"},
     default : {"empty"} \cup DefaultValues]

StubSignatures ==
    {sig \in SeqsUpTo(StubParams, MaxStubParams) :
        /\ ValidSignature(sig)
        /\ \A i \in DOMAIN sig : sig[i].name = NameOrder[i]}

Dicts == UNION {[D -> Values] : D \in SUBSET Names}

Calls ==
    {c \in [args : SeqsUpTo(Values, MaxArgs), kwargs : Dicts] :
        Len(c.args) + Cardinality(DOMAIN c.kwargs) <= MaxArgs}

\* the stub of a dispatch point that declares no default: has_defaults is
\* False and apply_defaults, the only reader of the stub, never runs
PlainStub ==
    [i \in 1..Len(NameOrder) |->
        [name |-> NameOrder[i], kind |-> "PK", annotation |-> "empty", default |-> "empty"]]

\* overloads whose parameters all declare a type and none is variadic
TypedLists ==
    {l \in CandidateLists :
        \A c \in DOMAIN l : \A i \in DOMAIN l[c] :
            l[c][i].annotation \in {"int", "str"} /\ ~IsVariadic(l[c][i])}

DispatchPoints ==
    [stub : {PlainStub}, cands : CandidateLists]
    \cup [stub : {sig \in StubSignatures : has_defaults_of(sig)}, cands : TypedLists]

\* sys.version_info is read only when no overload is registered
Minors(cands) == IF cands = <<>> THEN {10, 11} ELSE {11}

(***************************************************************************)
(* State.                                                                  *)
(***************************************************************************)
NoInspection ==
    [constructed |-> FALSE, original_signature |-> <<>>, has_defaults |-> FALSE,
     implementations |-> <<>>, arguments_to_check |-> <<>>]

NoOutcome ==
    [kind |-> "none", cand |-> 0, args |-> <<>>, kwargs |-> EmptyDict,
     report |-> <<>>, hint |-> ""]

NoCall == [args |-> <<>>, kwargs |-> EmptyDict]

Threads == 1..NThreads

Init ==
    /\ \E dp \in DispatchPoints :
          /\ overtaken_function = dp.stub
          /\ overloads = dp.cands
          /\ version_minor \in Minors(dp.cands)
    /\ lazy_inspection = NoInspection      \* OvertakenFunctionRegistry.__init__
    /\ pc = "idle"
    /\ args = <<>>
    /\ kwargs = EmptyDict
    /\ idx = 0
    /\ incompatibilities = <<>>
    /\ bindLog = <<>>
    /\ oracleLog = <<>>
    /\ invoked = <<>>
    /\ boundCall = NoCall
    /\ outcome = NoOutcome
    /\ discoveries = 0
    /\ analyses = 0
    /\ previous = NoOutcome
    /\ tpc = [t \in Threads |-> "idle"]
    /\ building = [t \in Threads |-> NoInspection]
    /\ seen = [t \in Threads |-> NoInspection]
    /\ toutcome = [t \in Threads |-> NoOutcome]
    /\ published = <<>>

(***************************************************************************)
(* Helpers of the actions.                                                 *)
(***************************************************************************)
\* a loop that walks the candidates from the last declared to the first
LoopOrderReversed(n) == [i \in 1..n |-> n + 1 - i]

\* the order in which `for ... in self.implementations` visits n candidates
LoopOrder(n) == [i \in 1..n |-> i]

\* a report that keeps only the latest failure
KeepLastIncompatibility(list, c, reason) ==
    <<[signature |-> c, reason |-> reason]>>

\* line 67: incompatibilities.append(IncompatibilityOverload(signature, reason))
AppendIncompatibility(list, c, reason) ==
    Append(list, [signature |-> c, reason |-> reason])

\* str(FullIncompatibilityReason(function, incompatibilities)): a header line,
\* then one "Incompatible with '<signature>' because <reason>" line per entry
Render(list) ==
    <<[line |-> "No compatible overload found", signature |-> 0, reason |-> NoReason]>>
    \o [i \in DOMAIN list |->
          [line |-> "Incompatible with", signature |-> list[i].signature,
           reason |-> list[i].reason]]

\* line 65: overloaded_implementation(*args, **kwargs); the interpreter binds
\* the arguments to the implementation's own parameters or raises TypeError
Invoke(c, signature, A, K) ==
    IF Bind(signature, A, K, FALSE).ok
    THEN [kind |-> "returned", cand |-> c, args |-> A, kwargs |-> K,
          report |-> <<>>, hint |-> ""]
    ELSE [kind |-> "TypeError", cand |-> c, args |-> A, kwargs |-> K,
          report |-> <<>>, hint |-> ""]

\* a property that builds the inspection and forgets to store it
PublishNothing(current, inspection) ==
    [inspection EXCEPT !.constructed = FALSE]

\* lines 40-42: what self._lazy_inspection holds after a completed inspection
Publish(current, inspection) == inspection

\* lines 19-27
LazyOverloadsInspection(original_signature, implementations, order) ==
    [constructed |-> TRUE,
     original_signature |-> original_signature,
     has_defaults |-> has_defaults_of(original_signature),
     implementations |-> implementations,
     arguments_to_check |-> order]

ResetCall ==
    /\ idx' = 0
    /\ incompatibilities' = <<>>
    /\ bindLog' = <<>>
    /\ oracleLog' = <<>>
    /\ invoked' = <<>>
    /\ boundCall' = NoCall
    /\ outcome' = NoOutcome

Fixed ==
    UNCHANGED <<overtaken_function, overloads, version_minor, tpc, building, seen,
                toutcome, published>>

(***************************************************************************)
(* Actions.                                                                *)
(***************************************************************************)
\* a caller invokes the wrapper: __call__ is entered
Call(A, K) ==
    /\ pc = "idle"
    /\ discoveries < MaxDiscoveries
    /\ pc' = "implementations"
    /\ args' = A
    /\ kwargs' = K
    /\ ResetCall
    /\ Fixed
    /\ UNCHANGED <<lazy_inspection, discoveries, analyses, previous>>

\* the caller repeats the call it just made
CallAgain ==
    /\ pc \in {"returned", "raised"}
    /\ previous = NoOutcome
    /\ discoveries < MaxDiscoveries
    /\ previous' = outcome
    /\ pc' = "implementations"
    /\ ResetCall
    /\ Fixed
    /\ UNCHANGED <<lazy_inspection, args, kwargs, discoveries, analyses>>

\* self.implementations with self._lazy_inspection None and overloads registered:
\* lines 19-27 run and the result is stored
Inspect ==
    /\ pc = "implementations"
    /\ ~lazy_inspection.constructed
    /\ overloads # <<>>
    /\ \E order \in IterationOrders(find_arguments_to_check(overloads)) :
          lazy_inspection' =
              Publish(lazy_inspection,
                      LazyOverloadsInspection(overtaken_function, overloads, order))
    /\ discoveries' = discoveries + 1
    /\ analyses' = analyses + 1
    /\ pc' = "loop"
    /\ idx' = 1
    /\ Fixed
    /\ UNCHANGED <<args, kwargs, incompatibilities, bindLog, oracleLog, invoked,
                   boundCall, outcome, previous>>

\* self.implementations with no overload registered: find_implementations raises
\* out of the constructor and self._lazy_inspection stays None
InspectNoOverloads ==
    /\ pc = "implementations"
    /\ ~lazy_inspection.constructed
    /\ overloads = <<>>
    /\ discoveries' = discoveries + 1
    /\ outcome' = [NoOutcome EXCEPT !.kind = "OverloadsNotFoundError",
                                    !.hint = additional_help(version_minor)]
    /\ pc' = "raised"
    /\ Fixed
    /\ UNCHANGED <<lazy_inspection, args, kwargs, idx, incompatibilities, bindLog,
                   oracleLog, invoked, boundCall, analyses, previous>>

\* self.implementations with the inspection cached
Cached ==
    /\ pc = "implementations"
    /\ lazy_inspection.constructed
    /\ pc' = "loop"
    /\ idx' = 1
    /\ Fixed
    /\ UNCHANGED <<lazy_inspection, args, kwargs, incompatibilities, bindLog, oracleLog,
                   invoked, boundCall, outcome, discoveries, analyses, previous>>

\* one iteration of the for loop of __call__, lines 62-69
TryCandidate ==
    /\ pc = "loop"
    /\ idx <= Len(lazy_inspection.implementations)
    /\ LET c == LoopOrder(Len(lazy_inspection.implementations))[idx]
           signature == lazy_inspection.implementations[c]
           found == find_incompatibility(lazy_inspection, args, kwargs, signature)
       IN  /\ bindLog' = Append(bindLog, c)
           /\ oracleLog' = oracleLog \o
                  [i \in DOMAIN found.calls |->
                      [cand |-> c, argument |-> found.calls[i].argument,
                       hint |-> found.calls[i].hint]]
           /\ IF found.reason = NoReason
              THEN /\ invoked' = Append(invoked, [cand |-> c, args |-> args, kwargs |-> kwargs])
                   /\ boundCall' = [args |-> found.args, kwargs |-> found.kwargs]
                   /\ outcome' = Invoke(c, signature, args, kwargs)
                   /\ pc' = IF outcome'.kind = "returned" THEN "returned" ELSE "raised"
                   /\ UNCHANGED <<idx, incompatibilities>>
              ELSE /\ incompatibilities' = AppendIncompatibility(incompatibilities, c, found.reason)
                   /\ idx' = idx + 1
                   /\ UNCHANGED <<invoked, boundCall, outcome, pc>>
    /\ Fixed
    /\ UNCHANGED <<lazy_inspection, args, kwargs, discoveries, analyses, previous>>

\* the else branch of the for loop: raise_full_incompatibility, lines 71-79
Exhausted ==
    /\ pc = "loop"
    /\ idx > Len(lazy_inspection.implementations)
    /\ outcome' = [NoOutcome EXCEPT !.kind = "CompatibleOverloadNotFoundError",
                                    !.report = Render(incompatibilities)]
    /\ pc' = "raised"
    /\ Fixed
    /\ UNCHANGED <<lazy_inspection, args, kwargs, idx, incompatibilities, bindLog,
                   oracleLog, invoked, boundCall, discoveries, analyses, previous>>

\* the caller has the result or the exception and goes on
Return ==
    /\ pc \in {"returned", "raised"}
    /\ pc' = "idle"
    /\ args' = <<>>
    /\ kwargs' = EmptyDict
    /\ previous' = NoOutcome
    /\ ResetCall
    /\ Fixed
    /\ UNCHANGED <<lazy_inspection, discoveries, analyses>>

Next ==
    \/ \E c \in Calls : Call(c.args, c.kwargs)
    \/ CallAgain
    \/ Inspect
    \/ InspectNoOverloads
    \/ Cached
    \/ TryCandidate
    \/ Exhausted
    \/ Return

Spec == Init /\ [][Next]_vars

(***************************************************************************)
(* Vocabulary of the properties.                                           *)
(***************************************************************************)
Done == pc \in {"returned", "raised"}

Resolved == Done /\ lazy_inspection.constructed

Implementations == lazy_inspection.implementations

\* find_incompatibility returns None for candidate c on the call in progress
NoneAt(c) ==
    find_incompatibility(lazy_inspection, args, kwargs, Implementations[c]).reason = NoReason

ReasonAt(c) ==
    find_incompatibility(lazy_inspection, args, kwargs, Implementations[c]).reason

\* the candidate the call invoked, 0 when it invoked none
Chosen == IF invoked = <<>> THEN 0 ELSE invoked[1].cand

\* a reference check: the call binds to the candidate and every parameter that
\* declares a type holds a value of that type
AcceptsFully(c) ==
    LET signature == Implementations[c]
        given == IF lazy_inspection.has_defaults
                 THEN apply_defaults(lazy_inspection.original_signature, args, kwargs, signature)
                 ELSE [args |-> args, kwargs |-> kwargs]
        b == Bind(signature, given.args, given.kwargs, FALSE)
    IN  /\ b.ok
        /\ \A i \in DOMAIN signature :
              (signature[i].annotation # "empty" /\ InArguments(signature, b, signature[i].name))
                 => check_type(signature[i], b, TypeHint(signature[i]))

FullyCompatible == {c \in DOMAIN Implementations : AcceptsFully(c)}

\* the candidate a resolver that checks every typed parameter selects, 0 for none
ReferenceChoice ==
    IF FullyCompatible = {} THEN 0
    ELSE CHOOSE c \in FullyCompatible : \A d \in FullyCompatible : c <= d

(***************************************************************************)
(* C1: if exactly one candidate binds the call and has every typed         *)
(* parameter's value compatible with its declared type, the call invokes   *)
(* exactly that candidate and returns its result.                          *)
(***************************************************************************)
C1_ExactlyOneCompatibleIsInvoked ==
    (Resolved /\ Cardinality(FullyCompatible) = 1)
        => /\ outcome.kind = "returned"
           /\ Len(invoked) = 1
           /\ {outcome.cand, invoked[1].cand} = FullyCompatible

(***************************************************************************)
(* C2: resolution is first-match in declaration order.  The candidate      *)
(* invoked is the one of smallest index for which find_incompatibility     *)
(* returns None; every earlier candidate was bound before it and recorded  *)
(* a reason; no later candidate is bound, checked or invoked.              *)
(***************************************************************************)
C2_FirstMatchInDeclarationOrder ==
    /\ Len(invoked) <= 1
    /\ bindLog = [i \in 1..Len(bindLog) |-> i]
    /\ \A i \in DOMAIN oracleLog : oracleLog[i].cand \in Range(bindLog)
    /\ \A i \in DOMAIN incompatibilities :
          /\ incompatibilities[i].signature = i
          /\ incompatibilities[i].reason # NoReason
          /\ incompatibilities[i].reason = ReasonAt(i)
    /\ invoked # <<>> =>
          LET c == invoked[1].cand
          IN  /\ NoneAt(c)
              /\ \A j \in 1..(c - 1) : ~NoneAt(j)
              /\ bindLog = [i \in 1..c |-> i]
              /\ Len(incompatibilities) = c - 1
              /\ \A i \in DOMAIN oracleLog : oracleLog[i].cand <= c
    /\ (Resolved /\ invoked = <<>>) => \A c \in DOMAIN Implementations : ~NoneAt(c)

\* the first candidate was invoked although the second accepts the call too
C2_Witness ==
    /\ pc = "returned"
    /\ Len(Implementations) = 2
    /\ invoked # <<>>
    /\ invoked[1].cand = 1
    /\ NoneAt(2)
    /\ bindLog = <<1>>

(***************************************************************************)
(* C3: relevant-parameter pruning is outcome-preserving.  The resolver     *)
(* that checks only arguments_to_check selects the same candidate, or      *)
(* fails with exhaustion in the same cases, as a resolver that checks      *)
(* every typed bound parameter.                                            *)
(***************************************************************************)
C3_PruningPreservesOutcome ==
    Resolved => Chosen = ReferenceChoice

(***************************************************************************)
(* C4: CompatibleOverloadNotFoundError is raised exactly when every        *)
(* candidate's bind-or-check step fails; then no candidate was invoked and *)
(* the report holds, after the header line, exactly one (signature,        *)
(* reason) entry per candidate in declaration order.                       *)
(***************************************************************************)
C4_ExhaustionReportsEveryCandidate ==
    Resolved =>
        /\ outcome.kind = "CompatibleOverloadNotFoundError"
              <=> \A c \in DOMAIN Implementations : ~NoneAt(c)
        /\ outcome.kind = "CompatibleOverloadNotFoundError" =>
              /\ invoked = <<>>
              /\ Len(outcome.report) = Len(Implementations) + 1
              /\ outcome.report[1].line = "No compatible overload found"
              /\ \A c \in DOMAIN Implementations :
                    /\ outcome.report[c + 1].line = "Incompatible with"
                    /\ outcome.report[c + 1].signature = c
                    /\ outcome.report[c + 1].reason = ReasonAt(c)
                    /\ outcome.report[c + 1].reason # NoReason

\* two candidates, one failing to bind and one failing a type check
C4_Witness ==
    /\ pc = "raised"
    /\ outcome.kind = "CompatibleOverloadNotFoundError"
    /\ Len(Implementations) = 2
    /\ outcome.report[2].reason.kind = "IncompatibilityBind"
    /\ outcome.report[3].reason.kind = "TypeMismatch"

(***************************************************************************)
(* C5: keyword-only disambiguation under stub defaults.  The stub declares *)
(* several keyword-only parameters, all with defaults; each candidate      *)
(* declares exactly one of them, keyword-only and typed.  A call that      *)
(* supplies one keyword with a value of the type a candidate declares for  *)
(* it selects the first such candidate and returns its result.             *)
(***************************************************************************)
KeywordOnlyStub ==
    /\ Len(overtaken_function) >= 2
    /\ \A i \in DOMAIN overtaken_function :
          overtaken_function[i].kind = "KO" /\ HasDefault(overtaken_function[i])

OneKeywordEach ==
    /\ overloads # <<>>
    /\ \A c \in DOMAIN overloads :
          /\ Len(overloads[c]) = 1
          /\ overloads[c][1].kind = "KO"
          /\ overloads[c][1].name \in ParamNames(overtaken_function)
          /\ overloads[c][1].annotation \in {"int", "str"}

\* the candidates declaring the supplied keyword with the type of its value
Declaring(n) ==
    {c \in DOMAIN overloads :
        overloads[c][1].name = n /\ overloads[c][1].annotation = TypeOf(kwargs[n])}

C5_KeywordOnlyDisambiguation ==
    (Done /\ KeywordOnlyStub /\ OneKeywordEach /\ args = <<>>
          /\ Cardinality(DOMAIN kwargs) = 1)
        => \A n \in DOMAIN kwargs :
              Declaring(n) # {} =>
                 /\ outcome.kind = "returned"
                 /\ outcome.cand \in Declaring(n)
                 /\ \A c \in Declaring(n) : outcome.cand <= c

(***************************************************************************)
(* C6: on a match the selected candidate is invoked with the argument      *)
(* lists the binder produced for it (the call's arguments with unsupplied  *)
(* parameters back-filled from the stub's defaults), the same lists that   *)
(* were bound and type-checked, not the raw call arguments.                *)
(***************************************************************************)
C6_InvokedWithBoundArguments ==
    invoked # <<>> =>
        /\ invoked[1].args = boundCall.args
        /\ invoked[1].kwargs = boundCall.kwargs

(***************************************************************************)
(* C7 as stated: over any sequence of calls on one dispatch point,         *)
(* candidate discovery and relevant-parameter analysis each run at most    *)
(* once in total.                                                          *)
(***************************************************************************)
C7_AtMostOneDiscovery ==
    discoveries <= 1 /\ analyses <= 1

(***************************************************************************)
(* C7 amended: nothing is inspected when the wrapper is constructed; once  *)
(* a discovery has found a candidate, discovery and analysis have run      *)
(* exactly once and never run again, and the cached inspection never       *)
(* changes; a discovery that finds no candidate caches nothing, so each    *)
(* later call runs discovery again (the analysis never runs); and a call   *)
(* repeated with the same arguments yields the same outcome.               *)
(***************************************************************************)
C7_CacheState ==
    /\ (pc = "idle" /\ outcome = NoOutcome /\ ~lazy_inspection.constructed
           /\ overloads # <<>>) => discoveries = 0
    /\ lazy_inspection.constructed =>
          /\ discoveries = 1
          /\ analyses = 1
          /\ lazy_inspection.implementations = overloads
          /\ lazy_inspection.original_signature = overtaken_function
          /\ Range(lazy_inspection.arguments_to_check) = find_arguments_to_check(overloads)
    /\ ~lazy_inspection.constructed =>
          /\ analyses = 0
          /\ discoveries > 0 => overloads = <<>>
    /\ (Done /\ previous # NoOutcome) => outcome = previous

C7_OnceOnlyAnalysis ==
    /\ []C7_CacheState
    /\ [][/\ lazy_inspection.constructed => lazy_inspection' = lazy_inspection
          /\ discoveries' # discoveries =>
                (~lazy_inspection.constructed /\ pc = "implementations")
          /\ analyses' # analyses =>
                (~lazy_inspection.constructed /\ pc = "implementations")]_vars

\* a repeated call answered from the cached inspection
C7_Witness ==
    /\ pc = "returned"
    /\ previous.kind = "returned"
    /\ discoveries = 1
    /\ analyses = 1
    /\ Len(lazy_inspection.arguments_to_check) > 0

(***************************************************************************)
(* C8 as stated: with no overload registered the error is raised once, at  *)
(* the first invocation.                                                   *)
(***************************************************************************)
C8_RaisedOnce ==
    outcome.kind = "OverloadsNotFoundError" =>
        /\ discoveries = 1
        /\ previous.kind # "OverloadsNotFoundError"

(***************************************************************************)
(* C8 amended: with no overload registered, creating the wrapper succeeds  *)
(* and every invocation, the first and each later one, raises              *)
(* OverloadsNotFoundError before any binding, checking or candidate        *)
(* invocation; nothing is cached; the hint is the typing_extensions        *)
(* message when the runtime is older than 3.11 and "Did you forget to use  *)
(* '@overload'?" otherwise.                                                *)
(***************************************************************************)
C8_NoOverloadsRaisesAtEachCall ==
    overloads = <<>> =>
        /\ pc # "loop"
        /\ ~lazy_inspection.constructed
        /\ bindLog = <<>> /\ oracleLog = <<>> /\ invoked = <<>>
        /\ (pc \in {"idle", "implementations"}) => outcome = NoOutcome
        /\ pc # "returned"
        /\ pc = "raised" =>
              /\ outcome.kind = "OverloadsNotFoundError"
              /\ version_minor < 11 =>
                    outcome.hint = "use typing_extensions.overload before Python 3.11"
              /\ version_minor >= 11 =>
                    outcome.hint = "Did you forget to use '@overload'?"

\* the second invocation raising the error again, on Python 3.11
C8_Witness ==
    /\ overloads = <<>>
    /\ pc = "raised"
    /\ outcome.kind = "OverloadsNotFoundError"
    /\ previous.kind = "OverloadsNotFoundError"
    /\ discoveries = 2
    /\ version_minor = 11

(***************************************************************************)
(* C9: when no candidate has an Unpack-annotated parameter, the analyzer's *)
(* result contains a parameter name if and only if more than one distinct  *)
(* declared type was observed at that parameter's position (positional-    *)
(* only and positional-or-keyword parameters) or under that parameter's    *)
(* name (positional-or-keyword, keyword-only and variadic parameters).     *)
(***************************************************************************)
TypesAtPosition(q) ==
    {overloads[c][q].annotation :
        c \in {d \in DOMAIN overloads :
                  q \in DOMAIN overloads[d] /\ overloads[d][q].kind \in {"PO", "PK"}}}

TypesUnderName(n) ==
    UNION {{overloads[c][i].annotation :
               i \in {j \in DOMAIN overloads[c] :
                         /\ overloads[c][j].name = n
                         /\ overloads[c][j].kind \in {"PK", "KO", "VP", "VK"}}} :
              c \in DOMAIN overloads}

Varies(n) ==
    \E c \in DOMAIN overloads : \E i \in DOMAIN overloads[c] :
        /\ overloads[c][i].name = n
        /\ \/ /\ overloads[c][i].kind \in {"PO", "PK"}
              /\ Cardinality(TypesAtPosition(i)) > 1
           \/ /\ overloads[c][i].kind \in {"PK", "KO", "VP", "VK"}
              /\ Cardinality(TypesUnderName(n)) > 1

AllDeclareTypes ==
    \A c \in DOMAIN overloads : \A i \in DOMAIN overloads[c] :
        overloads[c][i].annotation \in {"int", "str"}

C9_RelevantIffTypesVary ==
    (lazy_inspection.constructed /\ AllDeclareTypes)
        => \A n \in Names : n \in Range(lazy_inspection.arguments_to_check) <=> Varies(n)

(***************************************************************************)
(* C10: a parameter with no declared type is never passed to the           *)
(* compatibility oracle and never causes a candidate to be rejected,       *)
(* whatever its kind.                                                      *)
(***************************************************************************)
C10_UntypedNeverChecked ==
    /\ \A i \in DOMAIN oracleLog :
          ParamNamed(overloads[oracleLog[i].cand], oracleLog[i].argument).annotation # "empty"
    /\ \A i \in DOMAIN incompatibilities :
          incompatibilities[i].reason.kind = "TypeMismatch" =>
             ParamNamed(overloads[incompatibilities[i].signature],
                        incompatibilities[i].reason.argument).annotation # "empty"

(***************************************************************************)
(* Threads racing the first call.  Each thread enters __call__ once; the   *)
(* first thing __call__ evaluates is self.implementations, which goes      *)
(* through the property inspection_results (overtake_class.py, 38-42).     *)
(* The steps of a thread are the statements of that property and of        *)
(* LazyOverloadsInspection.__init__; the interpreter may switch threads    *)
(* between any two of them.  An attribute store is one indivisible step.   *)
(* In a record held by building, seen or lazy_inspection the flag          *)
(* `constructed` tells that the reference is not None; an attribute that   *)
(* __init__ has not assigned yet has the value it has in NoInspection.     *)
(***************************************************************************)
\* the object LazyOverloadsInspection(...) hands to __init__ as self
NewObject == [NoInspection EXCEPT !.constructed = TRUE]

\* an initialisation that stores the object in the field first and fills it there
FieldSeesConstruction(current, object) == object

\* lines 40-41: self._lazy_inspection while the right-hand side
\* LazyOverloadsInspection(self.overtaken_function) is still being evaluated
FieldDuringConstruction(current, object) == current

RECURSIVE ResolveFrom(_, _, _, _, _)
\* lines 62-71 from the i-th iteration on: implementations is the list read at
\* line 62, has_defaults, original_signature and arguments_to_check are read
\* from inspection by find_incompatibility
ResolveFrom(implementations, inspection, A, K, i) ==
    IF i > Len(implementations)
    THEN [NoOutcome EXCEPT !.kind = "CompatibleOverloadNotFoundError"]
    ELSE LET c == LoopOrder(Len(implementations))[i]
             found == find_incompatibility(inspection, A, K, implementations[c])
         IN  IF found.reason = NoReason
             THEN LET r == Invoke(c, implementations[c], A, K)
                  IN  [NoOutcome EXCEPT !.kind = r.kind, !.cand = c]
             ELSE ResolveFrom(implementations, inspection, A, K, i + 1)

CallerIdle ==
    UNCHANGED <<pc, args, kwargs, idx, incompatibilities, bindLog, oracleLog, invoked,
                boundCall, outcome, discoveries, analyses, previous>>

Program == UNCHANGED <<overtaken_function, overloads, version_minor>>

\* thread t calls the wrapper: __call__ starts evaluating self.implementations
TCall(t) ==
    /\ tpc[t] = "idle"
    /\ tpc' = [tpc EXCEPT ![t] = "line40"]
    /\ Program /\ CallerIdle
    /\ UNCHANGED <<lazy_inspection, building, seen, toutcome, published>>

\* line 40: if self._lazy_inspection is None; when it is, the call of
\* LazyOverloadsInspection allocates the object and enters __init__
TCheck(t) ==
    /\ tpc[t] = "line40"
    /\ IF lazy_inspection.constructed
       THEN /\ tpc' = [tpc EXCEPT ![t] = "line42"]
            /\ UNCHANGED building
       ELSE /\ tpc' = [tpc EXCEPT ![t] = "init20"]
            /\ building' = [building EXCEPT ![t] = NewObject]
    /\ lazy_inspection' =
          IF lazy_inspection.constructed THEN lazy_inspection
          ELSE FieldDuringConstruction(lazy_inspection, NewObject)
    /\ Program /\ CallerIdle
    /\ UNCHANGED <<seen, toutcome, published>>

\* lazy_inspection.py line 20: self.original_signature = inspect.signature(...)
TSignature(t) ==
    /\ tpc[t] = "init20"
    /\ building' = [building EXCEPT ![t].original_signature = overtaken_function]
    /\ lazy_inspection' = FieldDuringConstruction(lazy_inspection, building'[t])
    /\ tpc' = [tpc EXCEPT ![t] = "init21"]
    /\ Program /\ CallerIdle
    /\ UNCHANGED <<seen, toutcome, published>>

\* line 21: self.has_defaults = any(...)
THasDefaults(t) ==
    /\ tpc[t] = "init21"
    /\ building' = [building EXCEPT
                       ![t].has_defaults = has_defaults_of(building[t].original_signature)]
    /\ lazy_inspection' = FieldDuringConstruction(lazy_inspection, building'[t])
    /\ tpc' = [tpc EXCEPT ![t] = "init22"]
    /\ Program /\ CallerIdle
    /\ UNCHANGED <<seen, toutcome, published>>

\* lines 22-24: self.implementations = find_implementations(...); with no
\* overload registered raise_if_no_implementations raises, the exception leaves
\* __init__, the property and __call__, and the object is dropped
TFindImplementations(t) ==
    /\ tpc[t] = "init22"
    /\ IF overloads = <<>>
       THEN /\ building' = [building EXCEPT ![t] = NoInspection]
            /\ toutcome' = [toutcome EXCEPT ![t] =
                               [NoOutcome EXCEPT !.kind = "OverloadsNotFoundError",
                                                 !.hint = additional_help(version_minor)]]
            /\ tpc' = [tpc EXCEPT ![t] = "done"]
            /\ UNCHANGED lazy_inspection
       ELSE /\ building' = [building EXCEPT ![t].implementations = overloads]
            /\ lazy_inspection' = FieldDuringConstruction(lazy_inspection, building'[t])
            /\ tpc' = [tpc EXCEPT ![t] = "init25"]
            /\ UNCHANGED toutcome
    /\ Program /\ CallerIdle
    /\ UNCHANGED <<seen, published>>

\* lines 25-27: self.arguments_to_check = _find_arguments_to_check(self.implementations);
\* __init__ returns
TAnalyze(t) ==
    /\ tpc[t] = "init25"
    /\ \E order \in IterationOrders(find_arguments_to_check(building[t].implementations)) :
          building' = [building EXCEPT ![t].arguments_to_check = order]
    /\ lazy_inspection' = FieldDuringConstruction(lazy_inspection, building'[t])
    /\ tpc' = [tpc EXCEPT ![t] = "line41"]
    /\ Program /\ CallerIdle
    /\ UNCHANGED <<seen, toutcome, published>>

\* overtake_class.py line 41: the store self._lazy_inspection = <the new object>
TStore(t) ==
    /\ tpc[t] = "line41"
    /\ lazy_inspection' = Publish(lazy_inspection, building[t])
    /\ published' = Append(published, building[t])
    /\ building' = [building EXCEPT ![t] = NoInspection]
    /\ tpc' = [tpc EXCEPT ![t] = "line42"]
    /\ Program /\ CallerIdle
    /\ UNCHANGED <<seen, toutcome>>

\* line 42: return self._lazy_inspection, and line 46 reads its implementations
TReturn(t) ==
    /\ tpc[t] = "line42"
    /\ seen' = [seen EXCEPT ![t] = lazy_inspection]
    /\ tpc' = [tpc EXCEPT ![t] = "loop"]
    /\ Program /\ CallerIdle
    /\ UNCHANGED <<lazy_inspection, building, toutcome, published>>

\* lines 62-71 for the call f(*A, **K): the loop walks the list read at line 62;
\* find_incompatibility reads has_defaults, original_signature and
\* arguments_to_check through the property again, from the field as it is then
TResolve(t, A, K) ==
    /\ tpc[t] = "loop"
    /\ toutcome' = [toutcome EXCEPT ![t] =
                       ResolveFrom(seen[t].implementations, lazy_inspection, A, K, 1)]
    /\ tpc' = [tpc EXCEPT ![t] = "done"]
    /\ Program /\ CallerIdle
    /\ UNCHANGED <<lazy_inspection, building, seen, published>>

NextThreads ==
    \/ \E t \in Threads : TCall(t)
    \/ \E t \in Threads : TCheck(t)
    \/ \E t \in Threads : TSignature(t)
    \/ \E t \in Threads : THasDefaults(t)
    \/ \E t \in Threads : TFindImplementations(t)
    \/ \E t \in Threads : TAnalyze(t)
    \/ \E t \in Threads : TStore(t)
    \/ \E t \in Threads : TReturn(t)
    \/ \E t \in Threads : \E c \in Calls : TResolve(t, c.args, c.kwargs)

\* the dispatch points the threads race on: every list of overloads under the
\* stub without defaults, and at most one overload under a stub with defaults
ThreadDispatchPoints ==
    {dp \in DispatchPoints : dp.stub = PlainStub \/ Len(dp.cands) <= 1}

InitThreads ==
    /\ Init
    /\ [stub |-> overtaken_function, cands |-> overloads] \in ThreadDispatchPoints

SpecThreads == InitThreads /\ [][NextThreads]_vars

\* the inspections __init__ can return for this dispatch point
CompleteInspections ==
    {LazyOverloadsInspection(overtaken_function, overloads, order) :
        order \in IterationOrders(find_arguments_to_check(overloads))}

\* attribute by attribute equality; arguments_to_check is a set
SameInspection(x, y) ==
    /\ x.original_signature = y.original_signature
    /\ x.has_defaults = y.has_defaults
    /\ x.implementations = y.implementations
    /\ Range(x.arguments_to_check) = Range(y.arguments_to_check)

(***************************************************************************)
(* C11: under any interleaving of concurrent first calls the cache field   *)
(* is either unset or refers to a fully constructed inspection (original   *)
(* signature, has_defaults, candidate list and relevant-parameter set all  *)
(* computed); no thread resolves against a partially constructed cache;    *)
(* racing initialisations may recompute but all publish equal results.     *)
(***************************************************************************)
C11_CacheUnsetOrComplete ==
    /\ lazy_inspection = NoInspection \/ lazy_inspection \in CompleteInspections
    /\ \A t \in Threads :
          (tpc[t] = "loop" \/ (tpc[t] = "done" /\ toutcome[t].kind # "OverloadsNotFoundError"))
             => seen[t] \in CompleteInspections
    /\ \A i \in DOMAIN published :
          /\ published[i] \in CompleteInspections
          /\ \A j \in DOMAIN published : SameInspection(published[i], published[j])

\* both threads found the field unset, both ran the whole initialisation and
\* stored their object, and both calls then resolved
C11_Witness ==
    /\ Len(published) = NThreads
    /\ \A t \in Threads : tpc[t] = "done" /\ toutcome[t].kind = "returned"

====
